---------------------------- MODULE Spec2Model ----------------------------
(***************************************************************************)
(* Travel Explorer API (src/main.py): the HTTP handlers over the document  *)
(* store gateway (create_document / get_documents of database.py).         *)
(*                                                                         *)
(* Python values are encoded as follows.  A str that the handlers          *)
(* transform (upper, title, f-string, isoformat, str(ObjectId)) is the     *)
(* sequence of its character codes; None is the one-element sequence       *)
(* <<-1>>, which is no string.  A str that is only compared (the record    *)
(* type, status texts without their emoji, exception names) is a TLA+      *)
(* string.  A datetime is a record [kind, sec, micro]; an ObjectId is a    *)
(* record [oid].  A dict is a function from its keys.  Prices and ratings  *)
(* are in tenths.                                                          *)
(***************************************************************************)
EXTENDS Integers, Sequences, FiniteSets, TLC

VARIABLES
    db,     \* the connector: "available" (a live handle) or "unavailable" (None)
    store,  \* the "search" collection, in insertion order
    now,    \* the clock, in half seconds
    req,    \* the request being served, with what the storage did during it
    docs,   \* the list of records handed to the Result Materializer
    resp    \* the response; status 0 while none is pending

vars == <<db, store, now, req, docs, resp>>

-----------------------------------------------------------------------------
(* Bounds of the model *)

\* the "search" collection holds at most this many records
MaxStore == 2
\* the clock makes at most this many half-second steps
MaxClock == 1
\* the collection probe of /test reports at most this many names
MaxColl == 11
\* the Result Materializer is applied to lists of at most this many records
MaxDocs == 3

-----------------------------------------------------------------------------
(* Program constants *)

\* Query(10, ge=1, le=50)
LimitLo == 1
LimitHi == 50
\* collections[:10]
CollectionsShown == 10
\* str(e)[:50]
ErrorShown == 50

-----------------------------------------------------------------------------
(* Python values *)

None == <<-1>>

Min(a, b) == IF a < b THEN a ELSE b

IsLower(c) == c \in 97..122
IsUpper(c) == c \in 65..90
IsCased(c) == IsLower(c) \/ IsUpper(c)
ToUpper(c) == IF IsLower(c) THEN c - 32 ELSE c
ToLower(c) == IF IsUpper(c) THEN c + 32 ELSE c

\* s[:n]
Take(s, n) == SubSeq(s, 1, Min(n, Len(s)))

\* Python's order on str: by code point, a proper prefix first
RECURSIVE StrLess(_, _)
StrLess(a, b) ==
    IF b = <<>> THEN FALSE
    ELSE IF a = <<>> THEN TRUE
    ELSE IF Head(a) # Head(b) THEN Head(a) < Head(b)
    ELSE StrLess(Tail(a), Tail(b))

\* str.upper()
Upper(s) == [i \in 1..Len(s) |-> ToUpper(s[i])]

\* str.title(): a cased character is upper-cased after an uncased one (or
\* at the start) and lower-cased after a cased one
Title(s) ==
    [i \in 1..Len(s) |->
        IF i > 1 /\ IsCased(s[i - 1]) THEN ToLower(s[i]) ELSE ToUpper(s[i])]

\* the character of a decimal digit
Digit(n) == 48 + (n % 10)

\* two decimal digits, zero padded
Digits2(n) == <<Digit(n \div 10), Digit(n)>>

\* six decimal digits, zero padded
Digits6(n) ==
    <<Digit(n \div 100000), Digit(n \div 10000), Digit(n \div 1000),
      Digit(n \div 100), Digit(n \div 10), Digit(n)>>

\* the request strings the model draws from
lax == <<108, 97, 120>>
Jfk == <<74, 102, 107>>
new_yORK == <<110, 101, 119, 32, 121, 79, 82, 75>>
day1 == <<50, 48, 50, 52, 45, 48, 53, 45, 48, 49>>
day5 == <<50, 48, 50, 52, 45, 48, 53, 45, 48, 53>>

\* the limits tried: around the range's lower end and the store's size, and
\* around its upper end
Limits == (LimitLo - 1 .. MaxStore) \cup {LimitHi, LimitHi + 1}

Routes == {<<lax, Jfk>>}
Cities == {new_yORK}
Dates == {day1}

\* the POST bodies the model draws from: SearchQuery (src/main.py), type
\* required, every other field Optional with default None
SearchQuery(type, origin, destination, date, city, checkin, checkout) ==
    [type |-> type, origin |-> origin, destination |-> destination,
     date |-> date, city |-> city, checkin |-> checkin, checkout |-> checkout]

SearchQueries ==
    { SearchQuery("flights", lax, Jfk, day1, None, None, None),
      SearchQuery("cars", None, None, None, None, None, None) }

-----------------------------------------------------------------------------
(* Timestamps and identifiers *)

PyStr(s) == [kind |-> "str", text |-> s]

\* datetime.utcnow(): the clock counts half seconds
utcnow == [kind |-> "datetime", sec |-> now \div 2, micro |-> (now % 2) * 500000]

\* "2024-05-01T10:00:"
IsoPrefix == day1 \o <<84, 49, 48, 58, 48, 48, 58>>

\* datetime.isoformat(): the fraction is left out when microsecond is 0
isoformat(dt) ==
    IsoPrefix \o Digits2(dt.sec)
        \o (IF dt.micro = 0 THEN <<>> ELSE <<46>> \o Digits6(dt.micro))

\* hasattr(v, "isoformat")
HasIsoformat(v) == v.kind = "datetime"

\* str(ObjectId)
OidStr(o) == <<111>> \o Digits2(o.oid)

-----------------------------------------------------------------------------
(* The document store gateway (database.py) *)

Raise(error) == [raised |-> TRUE, error |-> error, value |-> None, store |-> store]

Return(value, st) == [raised |-> FALSE, error |-> "", value |-> value, store |-> st]

\* Document Codec: every field of the payload plus created_at, set at call time
normalize(payload) ==
    [k \in DOMAIN payload \cup {"created_at"} |->
        IF k = "created_at" THEN utcnow ELSE payload[k]]

\* the storage assigns the identifier
insert_one(doc) ==
    [k \in DOMAIN doc \cup {"_id"} |->
        IF k = "_id" THEN [oid |-> Len(store) + 1] ELSE doc[k]]

\* create_document(collection, payload): fault is the storage failing the insert
create_document(collection, payload, fault) ==
    IF db = "unavailable" THEN Raise("StorageUnavailable")
    ELSE IF fault THEN Raise("StorageWriteError")
    ELSE LET doc == insert_one(normalize(payload))
         IN  Return(OidStr(doc["_id"]), Append(store, doc))

\* the orders in which the storage may hand back n of its records
Retrievals(n) ==
    { p \in [1..n -> 1..Len(store)] : \A i, j \in 1..n : i # j => p[i] # p[j] }

\* get_documents(collection, filter, limit): at most limit stored records;
\* pick is the storage's choice of records, fault its failing the query
get_documents(collection, filter, limit, pick, fault) ==
    IF db = "unavailable" THEN Raise("StorageUnavailable")
    ELSE IF fault THEN Raise("StorageReadError")
    ELSE Return([i \in 1..Min(limit, Len(store)) |-> store[pick[i]]], store)

-----------------------------------------------------------------------------
(* Handlers (src/main.py) *)

HTTPException(status_code, detail) == [status |-> status_code, detail |-> detail]

Ok(body) == [status |-> 200, body |-> body]

\* create_search with the failure passed over, as the mock searches do
create_search_swallowing(search, fault) ==
    LET r == create_document("search", search, fault)
    IN  /\ req.op = "none"
        /\ fault \/ db = "unavailable" \/ Len(store) < MaxStore
        /\ req' = [op |-> "create_search", search |-> search, fault |-> fault]
        /\ store' = r.store
        /\ resp' = Ok([status |-> "ok", id |-> r.value])
        /\ UNCHANGED <<db, now, docs>>

\* POST /api/search
create_search(search, fault) ==
    LET r == create_document("search", search, fault)
    IN  /\ req.op = "none"
        /\ fault \/ db = "unavailable" \/ Len(store) < MaxStore
        /\ req' = [op |-> "create_search", search |-> search, fault |-> fault]
        /\ store' = r.store
        /\ resp' = IF r.raised THEN HTTPException(500, r.error)
                   ELSE Ok([status |-> "ok", id |-> r.value])
        /\ UNCHANGED <<db, now, docs>>

\* lines 120-124: the identifier to str, a datetime created_at to ISO text
convert(d) ==
    LET d1 == IF "_id" \in DOMAIN d
              THEN [d EXCEPT !["_id"] = PyStr(OidStr(@))] ELSE d
    IN  IF "created_at" \in DOMAIN d1 /\ HasIsoformat(d1["created_at"])
        THEN [d1 EXCEPT !["created_at"] = PyStr(isoformat(@))] ELSE d1

\* key=lambda x: x.get("created_at", "")
sortkey(x) == IF "created_at" \in DOMAIN x THEN x["created_at"].text ELSE <<>>

\* insert_desc without reverse=True: ascending
RECURSIVE insert_asc(_, _)
insert_asc(sorted, d) ==
    IF sorted = <<>> THEN <<d>>
    ELSE IF StrLess(sortkey(d), sortkey(Head(sorted))) THEN <<d>> \o sorted
    ELSE <<Head(sorted)>> \o insert_asc(Tail(sorted), d)

\* insert_desc as an ascending sort reversed would do it: d goes before the
\* records of an equal key
RECURSIVE insert_desc_ties_reversed(_, _)
insert_desc_ties_reversed(sorted, d) ==
    IF sorted = <<>> THEN <<d>>
    ELSE IF ~StrLess(sortkey(d), sortkey(Head(sorted))) THEN <<d>> \o sorted
    ELSE <<Head(sorted)>> \o insert_desc_ties_reversed(Tail(sorted), d)

\* where list.sort(reverse=True) puts d among the records sorted so far:
\* before the first record of a smaller key, after those of an equal key
RECURSIVE insert_desc(_, _)
insert_desc(sorted, d) ==
    IF sorted = <<>> THEN <<d>>
    ELSE IF StrLess(sortkey(Head(sorted)), sortkey(d)) THEN <<d>> \o sorted
    ELSE <<Head(sorted)>> \o insert_desc(Tail(sorted), d)

\* docs.sort(key=..., reverse=True)
RECURSIVE sort_reverse(_)
sort_reverse(ds) ==
    IF ds = <<>> THEN <<>>
    ELSE insert_desc(sort_reverse(SubSeq(ds, 1, Len(ds) - 1)), ds[Len(ds)])

\* lines 119-126
materialize(ds) == sort_reverse([i \in 1..Len(ds) |-> convert(ds[i])])

\* list_recent_searches asking the gateway for LimitHi records whatever the
\* limit of the request
list_recent_searches_unlimited(limit, pick, fault) ==
    LET r == get_documents("search", <<>>, LimitHi,
                           [i \in 1..Len(store) |-> i], fault)
    IN  /\ req.op = "none"
        /\ req' = [op |-> "list_recent_searches", limit |-> limit, fault |-> fault]
        /\ IF limit < LimitLo \/ limit > LimitHi
           THEN resp' = [status |-> 422]
           ELSE IF r.raised
           THEN resp' = HTTPException(500, r.error)
           ELSE resp' = Ok([items |-> materialize(r.value)])
        /\ UNCHANGED <<db, store, now, docs>>

\* list_recent_searches with the records it rewrites shared with the store
list_recent_searches_writeback(limit, pick, fault) ==
    LET r == get_documents("search", <<>>, limit, pick, fault)
        n == Min(limit, Len(store))
    IN  /\ req.op = "none"
        /\ req' = [op |-> "list_recent_searches", limit |-> limit, fault |-> fault]
        /\ IF limit < LimitLo \/ limit > LimitHi
           THEN resp' = [status |-> 422] /\ store' = store
           ELSE IF r.raised
           THEN resp' = HTTPException(500, r.error) /\ store' = store
           ELSE /\ resp' = Ok([items |-> materialize(r.value)])
                /\ store' = [i \in 1..Len(store) |->
                               IF \E k \in 1..n : pick[k] = i
                               THEN convert(store[i]) ELSE store[i]]
        /\ UNCHANGED <<db, now, docs>>

\* GET /api/searches?limit=: Query(10, ge=1, le=50) rejects a limit out of
\* range before the handler runs
list_recent_searches(limit, pick, fault) ==
    LET r == get_documents("search", <<>>, limit, pick, fault)
    IN  /\ req.op = "none"
        /\ req' = [op |-> "list_recent_searches", limit |-> limit, fault |-> fault]
        /\ IF limit < LimitLo \/ limit > LimitHi
           THEN resp' = [status |-> 422]
           ELSE IF r.raised
           THEN resp' = HTTPException(500, r.error)
           ELSE resp' = Ok([items |-> materialize(r.value)])
        /\ UNCHANGED <<db, store, now, docs>>

\* f"{date}T06:30"
At(date, hh, mm) == date \o <<84>> \o Digits2(hh) \o <<58>> \o Digits2(mm)

\* the mock flights of lines 135-167; prices in tenths
mock_flights(origin, destination, date) ==
    LET base_price == 790
        FlightOption(airline, number, dh, dm, ah, am, duration, price) ==
            [airline |-> airline, flight_number |-> number,
             depart_time |-> At(date, dh, dm), arrive_time |-> At(date, ah, am),
             duration |-> duration, price |-> price,
             origin |-> Upper(origin), destination |-> Upper(destination)]
    IN  << FlightOption("SkyJet", "SJ201", 6, 30, 9, 5, "2h 35m", base_price + 200),
           FlightOption("AeroWings", "AW318", 10, 15, 12, 55, "2h 40m", base_price + 350),
           FlightOption("CloudAir", "CA722", 19, 45, 22, 25, "2h 40m", base_price + 100) >>

\* the mock hotels of lines 186-208; rating and price in tenths
mock_hotels(city) ==
    LET HotelOption(name, rating, price, image) ==
            [name |-> name, location |-> Title(city), rating |-> rating,
             price_per_night |-> price, image |-> image]
    IN  << HotelOption("Grand Central Hotel", 45, 1290,
               "https://images.unsplash.com/photo-1542314831-068cd1dbfeeb?q=80&w=1200&auto=format&fit=crop"),
           HotelOption("Urban Stay Boutique", 42, 990,
               "https://images.unsplash.com/photo-1496412705862-e0088f16f791?q=80&w=1200&auto=format&fit=crop"),
           HotelOption("Skyline Suites", 48, 1890,
               "https://images.unsplash.com/photo-1502920917128-1aa500764cbd?q=80&w=1200&auto=format&fit=crop") >>

\* the mock trains of lines 221-242; prices in tenths
mock_trains(origin, destination, date) ==
    LET TrainOption(name, number, dh, dm, ah, am, duration, price) ==
            [train_name |-> name, train_number |-> number,
             depart_time |-> At(date, dh, dm), arrive_time |-> At(date, ah, am),
             duration |-> duration, price |-> price,
             origin |-> Upper(origin), destination |-> Upper(destination)]
    IN  << TrainOption("Express Line", "EX123", 7, 10, 13, 30, "6h 20m", 240),
           TrainOption("Rapid Rider", "RR452", 15, 0, 21, 10, "6h 10m", 275) >>

\* search_flights with the failure to save surfaced as create_search does
search_flights_surfacing(origin, destination, date, fault) ==
    LET r == create_document("search",
                 [type |-> "flights", origin |-> origin,
                  destination |-> destination, date |-> date], fault)
    IN  /\ req.op = "none"
        /\ fault \/ db = "unavailable" \/ Len(store) < MaxStore
        /\ req' = [op |-> "search_flights", origin |-> origin,
                   destination |-> destination, date |-> date, fault |-> fault]
        /\ store' = r.store
        /\ resp' = IF r.raised THEN HTTPException(500, r.error)
                   ELSE Ok(mock_flights(origin, destination, date))
        /\ UNCHANGED <<db, now, docs>>

\* GET /api/search/flights: the search is saved for recents, a failure
\* to save is passed over
search_flights(origin, destination, date, fault) ==
    LET r == create_document("search",
                 [type |-> "flights", origin |-> origin,
                  destination |-> destination, date |-> date], fault)
    IN  /\ req.op = "none"
        /\ fault \/ db = "unavailable" \/ Len(store) < MaxStore
        /\ req' = [op |-> "search_flights", origin |-> origin,
                   destination |-> destination, date |-> date, fault |-> fault]
        /\ store' = r.store
        /\ resp' = Ok(mock_flights(origin, destination, date))
        /\ UNCHANGED <<db, now, docs>>

\* GET /api/search/hotels
search_hotels(city, checkin, checkout, fault) ==
    LET r == create_document("search",
                 [type |-> "hotels", city |-> city,
                  checkin |-> checkin, checkout |-> checkout], fault)
    IN  /\ req.op = "none"
        /\ fault \/ db = "unavailable" \/ Len(store) < MaxStore
        /\ req' = [op |-> "search_hotels", city |-> city,
                   checkin |-> checkin, checkout |-> checkout, fault |-> fault]
        /\ store' = r.store
        /\ resp' = Ok(mock_hotels(city))
        /\ UNCHANGED <<db, now, docs>>

\* GET /api/search/trains
search_trains(origin, destination, date, fault) ==
    LET r == create_document("search",
                 [type |-> "trains", origin |-> origin,
                  destination |-> destination, date |-> date], fault)
    IN  /\ req.op = "none"
        /\ fault \/ db = "unavailable" \/ Len(store) < MaxStore
        /\ req' = [op |-> "search_trains", origin |-> origin,
                   destination |-> destination, date |-> date, fault |-> fault]
        /\ store' = r.store
        /\ resp' = Ok(mock_trains(origin, destination, date))
        /\ UNCHANGED <<db, now, docs>>

\* what db.list_collection_names() may do: raise with a message of some
\* length, or return some number of names
CollName(i) == <<99>> \o Digits2(i)

Probes ==
    { [raised |-> TRUE, message |-> [i \in 1..n |-> 101], names |-> <<>>] :
          n \in {3, ErrorShown + 10} }
    \cup
    { [raised |-> FALSE, message |-> <<>>, names |-> [i \in 1..n |-> CollName(i)]] :
          n \in 0..MaxColl }

\* the response of /test, lines 74-103: probe is the outcome of the
\* collection probe, url_set and name_set whether the environment holds
\* DATABASE_URL and DATABASE_NAME
test_response(probe, url_set, name_set) ==
    LET r0 == [backend |-> "Running",
               database |-> [text |-> "Not Available", detail |-> <<>>],
               database_url |-> "None", database_name |-> "None",
               connection_status |-> "Not Connected", collections |-> <<>>]
        r1 == IF db # "unavailable"
              THEN LET c == [r0 EXCEPT !.database = [text |-> "Available", detail |-> <<>>],
                                       !.database_url = "Configured",
                                       !.database_name = "db.name",
                                       !.connection_status = "Connected"]
                   IN  IF probe.raised
                       THEN [c EXCEPT !.database =
                                [text |-> "Connected but Error",
                                 detail |-> Take(probe.message, ErrorShown)]]
                       ELSE [c EXCEPT !.collections = Take(probe.names, CollectionsShown),
                                      !.database = [text |-> "Connected & Working",
                                                    detail |-> <<>>]]
              ELSE [r0 EXCEPT !.database =
                        [text |-> "Available but not initialized", detail |-> <<>>]]
    IN  [r1 EXCEPT !.database_url = IF url_set THEN "Set" ELSE "Not Set",
                   !.database_name = IF name_set THEN "Set" ELSE "Not Set"]

\* test_database without its try blocks: a failing probe reaches the caller
test_database_raising(probe, url_set, name_set) ==
    /\ req.op = "none"
    /\ req' = [op |-> "test_database", probe |-> probe]
    /\ resp' = IF db # "unavailable" /\ probe.raised
               THEN HTTPException(500, probe.message)
               ELSE Ok(test_response(probe, url_set, name_set))
    /\ UNCHANGED <<db, store, now, docs>>

\* GET /test
test_database(probe, url_set, name_set) ==
    /\ req.op = "none"
    /\ req' = [op |-> "test_database", probe |-> probe]
    /\ resp' = Ok(test_response(probe, url_set, name_set))
    /\ UNCHANGED <<db, store, now, docs>>

\* the response is delivered and the server waits for the next request
Respond ==
    /\ req.op # "none"
    /\ req' = [op |-> "none"]
    /\ resp' = [status |-> 0]
    /\ UNCHANGED <<db, store, now, docs>>

\* time passes
Tick ==
    /\ req.op = "none"
    /\ now < MaxClock
    /\ now' = now + 1
    /\ UNCHANGED <<db, store, req, docs, resp>>

Init ==
    /\ db \in {"available", "unavailable"}
    /\ store = <<>>
    /\ now = 0
    /\ req = [op |-> "none"]
    /\ docs = <<>>
    /\ resp = [status |-> 0]

\* a request arrives when the server is waiting and its handler runs; each
\* handler touches the store at most once
Next ==
    \/ \E search \in SearchQueries, fault \in BOOLEAN : create_search(search, fault)
    \/ \E limit \in Limits, fault \in BOOLEAN :
          \E pick \in Retrievals(Min(limit, Len(store))) :
              list_recent_searches(limit, pick, fault)
    \/ \E route \in Routes, date \in Dates, fault \in BOOLEAN :
          search_flights(route[1], route[2], date, fault)
    \/ \E city \in Cities, date \in Dates, fault \in BOOLEAN :
          search_hotels(city, date, day5, fault)
    \/ \E route \in Routes, date \in Dates, fault \in BOOLEAN :
          search_trains(route[1], route[2], date, fault)
    \/ Respond
    \/ Tick

Spec == Init /\ [][Next]_vars

-----------------------------------------------------------------------------
(* The diagnostic endpoint on its own: it reads no record and writes none *)

NextDiag ==
    \/ \E probe \in Probes, url_set \in BOOLEAN, name_set \in BOOLEAN :
          test_database(probe, url_set, name_set)
    \/ Respond

SpecDiag == Init /\ [][NextDiag]_vars

-----------------------------------------------------------------------------
(* The Result Materializer on its own, applied to any list of records the  *)
(* collection may hold: created_at a datetime, already text, or missing    *)

Stamps ==
    { [kind |-> "missing"],
      [kind |-> "datetime", sec |-> 9, micro |-> 0],
      [kind |-> "datetime", sec |-> 9, micro |-> 500000],
      [kind |-> "datetime", sec |-> 10, micro |-> 0],
      PyStr(IsoPrefix \o Digits2(9)) }

Doc(i, stamp) ==
    IF stamp.kind = "missing"
    THEN [_id |-> [oid |-> i], type |-> "flights"]
    ELSE [_id |-> [oid |-> i], type |-> "flights", created_at |-> stamp]

SortInputs ==
    UNION { { [i \in 1..n |-> Doc(i, c[i])] : c \in [1..n -> Stamps] } :
                n \in 0..MaxDocs }

InitSort ==
    /\ db = "available"
    /\ store = <<>>
    /\ now = 0
    /\ req = [op |-> "materialize"]
    /\ docs \in SortInputs
    /\ resp = [status |-> 0]

\* lines 119-127 applied to docs
Materialize ==
    /\ resp.status = 0
    /\ resp' = Ok([items |-> materialize(docs)])
    /\ UNCHANGED <<db, store, now, req, docs>>

NextSort == Materialize

SpecSort == InitSort /\ [][NextSort]_vars

-----------------------------------------------------------------------------
(* Properties *)

Listed == req.op = "list_recent_searches" /\ resp.status = 200

StorageFailed == db = "unavailable" \/ req.fault

StoredRecords == { store[i] : i \in 1..Len(store) }

\* the stored record an item of a listing came from
StoredOf(item) == CHOOSE r \in StoredRecords : OidStr(r["_id"]) = item["_id"].text

\* the order of time on datetimes
DtLess(a, b) == a.sec < b.sec \/ (a.sec = b.sec /\ a.micro < b.micro)

Present(r, k) == k \in DOMAIN r /\ r[k] # None

\* C1: a mock search answers 200 with its fixed entries (3 flights, 3 hotels,
\* 2 trains, computed from the request alone) whether or not the search was
\* saved; a failure to save never reaches the caller.
C1_MockSearchSurvivesPersistenceFailure ==
    /\ req.op = "search_flights" =>
          /\ resp = Ok(mock_flights(req.origin, req.destination, req.date))
          /\ Len(resp.body) = 3
          /\ [i \in 1..3 |-> resp.body[i].flight_number] = <<"SJ201", "AW318", "CA722">>
          /\ [i \in 1..3 |-> resp.body[i].price] = <<990, 1140, 890>>
    /\ req.op = "search_hotels" =>
          /\ resp = Ok(mock_hotels(req.city))
          /\ Len(resp.body) = 3
          /\ [i \in 1..3 |-> resp.body[i].name]
                = <<"Grand Central Hotel", "Urban Stay Boutique", "Skyline Suites">>
    /\ req.op = "search_trains" =>
          /\ resp = Ok(mock_trains(req.origin, req.destination, req.date))
          /\ Len(resp.body) = 2
          /\ [i \in 1..2 |-> resp.body[i].train_number] = <<"EX123", "RR452">>

\* a flight search answered in full although the insert failed on a live
\* connector, nothing having been saved
C1_Witness ==
    /\ req.op = "search_flights"
    /\ db = "available" /\ req.fault /\ store = <<>>
    /\ resp.status = 200 /\ Len(resp.body) = 3
    /\ resp.body[1].origin = <<76, 65, 88>>

\* C2: when the storage operation fails (the connector unavailable
\* included), create_search and list_recent_searches answer 500 with the
\* error's message, and the failed call leaves the stored records as they were.
C2_StorageFailureSurfaces ==
    [][ (/\ req.op = "none"
         /\ \/ req'.op = "create_search"
            \/ (req'.op = "list_recent_searches" /\ req'.limit \in LimitLo..LimitHi)
         /\ StorageFailed')
        => /\ resp'.status = 500
           /\ resp'.detail \in {"StorageUnavailable", "StorageWriteError", "StorageReadError"}
           /\ db = "unavailable" => resp'.detail = "StorageUnavailable"
           /\ store' = store ]_vars

\* a POST answered 500 after a failed insert, with records already stored
C2_Witness ==
    /\ req.op = "create_search" /\ db = "available" /\ req.fault
    /\ resp.status = 500 /\ resp.detail = "StorageWriteError"
    /\ Len(store) > 0

C4_ListingDescending ==
    Listed =>
        \A i, j \in 1..Len(resp.body.items) :
            i < j => ~DtLess(StoredOf(resp.body.items[i])["created_at"],
                             StoredOf(resp.body.items[j])["created_at"])

\* a listing of two records created at different times
C4_Witness ==
    /\ Listed
    /\ Len(resp.body.items) = 2
    /\ DtLess(StoredOf(resp.body.items[2])["created_at"],
              StoredOf(resp.body.items[1])["created_at"])

\* C5: a listing with limit n in [1,50] holds at most n items, all of them
\* stored records, however many records are stored.
C5_AtMostLimit ==
    Listed =>
        /\ req.limit \in LimitLo..LimitHi
        /\ Len(resp.body.items) <= req.limit
        /\ \A i \in 1..Len(resp.body.items) :
              \E r \in StoredRecords : OidStr(r["_id"]) = resp.body.items[i]["_id"].text

\* a listing cut to its limit, more records being stored
C5_Witness ==
    /\ Listed
    /\ Len(store) > req.limit
    /\ Len(resp.body.items) = req.limit

\* C6: every stored record has a type and a created_at, and no step removes
\* a stored record or changes any field of it.
C6_AppendOnlyImmutable ==
    /\ [](\A i \in 1..Len(store) :
             /\ "type" \in DOMAIN store[i]
             /\ "created_at" \in DOMAIN store[i]
             /\ store[i]["created_at"].kind = "datetime")
    /\ [][ /\ Len(store') >= Len(store)
           /\ \A i \in 1..Len(store) : store'[i] = store[i] ]_vars

\* a listing has rewritten the records it retrieved, two being stored
C6_Witness ==
    /\ Listed
    /\ Len(store) = 2
    /\ Len(resp.body.items) = 2
    /\ resp.body.items[1]["created_at"].kind = "str"

\* C7: (the claim as stated) every stored record has a type among flights,
\* hotels, trains, with origin, destination and date present for flights and
\* trains, and city, checkin and checkout present for hotels.
C7_RecordsWellTyped ==
    \A i \in 1..Len(store) :
        LET r == store[i]
        IN  /\ r.type \in {"flights", "hotels", "trains"}
            /\ r.type \in {"flights", "trains"} =>
                  Present(r, "origin") /\ Present(r, "destination") /\ Present(r, "date")
            /\ r.type = "hotels" =>
                  Present(r, "city") /\ Present(r, "checkin") /\ Present(r, "checkout")

\* C8: /test never raises: it answers 200; with no database handle, or with
\* the collection probe failing, its database field tells so; its
\* collections list has at most 10 names.
C8_DiagnosticNeverRaises ==
    req.op = "test_database" =>
        /\ resp.status = 200
        /\ db = "unavailable" =>
              /\ resp.body.database.text = "Available but not initialized"
              /\ resp.body.connection_status = "Not Connected"
              /\ resp.body.collections = <<>>
        /\ (db = "available" /\ req.probe.raised) =>
              /\ resp.body.database.text = "Connected but Error"
              /\ resp.body.database.detail = Take(req.probe.message, 50)
              /\ resp.body.collections = <<>>
        /\ Len(resp.body.collections) <= 10

\* the probe failed on a live connector with a message longer than is shown
C8_Witness ==
    /\ req.op = "test_database"
    /\ db = "available" /\ req.probe.raised
    /\ Len(req.probe.message) > 50
    /\ resp.status = 200

Converted == [i \in 1..Len(docs) |-> convert(docs[i])]

\* where the record retrieved at place i stands in the items
PlaceOf(i) ==
    CHOOSE j \in 1..Len(resp.body.items) : resp.body.items[j] = Converted[i]

\* C9: the reordering is a stable descending sort on created_at, a missing
\* created_at counting as the empty string: the items are the retrieved
\* records, in descending order of the key; a record without created_at comes
\* after every record with one; records of equal created_at keep their order
\* of retrieval.
C9_StableDescendingSort ==
    resp.status = 200 =>
        LET items == resp.body.items
            n == Len(docs)
        IN  /\ Len(items) = n
            /\ \A i \in 1..n : \E j \in 1..n : items[j] = Converted[i]
            /\ \A i, j \in 1..n :
                  i < j => ~StrLess(sortkey(items[i]), sortkey(items[j]))
            /\ \A i, j \in 1..n :
                  ("created_at" \notin DOMAIN items[i] /\ "created_at" \in DOMAIN items[j])
                      => j < i
            /\ \A i, j \in 1..n :
                  (i < j /\ sortkey(Converted[i]) = sortkey(Converted[j]))
                      => PlaceOf(i) < PlaceOf(j)

\* sorted: a record without created_at retrieved first, then two records of
\* equal created_at
C9_Witness ==
    /\ resp.status = 200
    /\ Len(docs) = 3
    /\ "created_at" \notin DOMAIN docs[1]
    /\ "created_at" \in DOMAIN docs[2]
    /\ sortkey(Converted[2]) = sortkey(Converted[3])
    /\ PlaceOf(1) = 3

\* C10: (the claim as stated) a listing with limit n holds the min(n, total)
\* records of greatest created_at: no stored record left out was created
\* after one that is listed.
C10_ListingIsMostRecent ==
    Listed =>
        /\ Len(resp.body.items) = Min(req.limit, Len(store))
        /\ \A i \in 1..Len(resp.body.items) :
              \A r \in StoredRecords :
                  (\A j \in 1..Len(resp.body.items) :
                        resp.body.items[j]["_id"].text # OidStr(r["_id"]))
                  => ~DtLess(StoredOf(resp.body.items[i])["created_at"], r["created_at"])

=============================================================================
